---- MODULE Spec2Model ----
(***************************************************************************)
(* Model of cache-rs (src/src/cache.rs): Cache<K, V, F, G>, a map from a   *)
(* normalized identifier to an Expiring<V> behind a std::sync::RwLock,     *)
(* filled on demand by an asynchronous, fallible, caller-supplied loader.  *)
(*                                                                         *)
(* Every caller runs one public operation at a time.  A critical section   *)
(* on the RwLock is two steps: taking the lock, then the body together     *)
(* with the drop of the guard.  The loader is the environment: once        *)
(* invoked it resolves to any entry or to any error, or the awaiting       *)
(* future is dropped.  No critical section panics, so the lock is never    *)
(* poisoned, and the system clock does not step backwards.                 *)
(*                                                                         *)
(* The variables marked "history" record what has happened; no action's    *)
(* guard or effect on the program's state reads them.                      *)
(***************************************************************************)
EXTENDS Naturals, FiniteSets

\* ---- bounds of the model ----
NumCallers == 2
NumKeys == 3
NumValues == 2
NumErrors == 2
MaxTime == 1
MaxCalls == 3
MaxLiveCalls == 2

Callers == 1..NumCallers
Keys == 1..NumKeys
Values == 1..NumValues
Errors == 1..NumErrors
Times == 0..MaxTime

NoCaller == 0

GetOps == {"get", "get_with_expiry"}
Ops == GetOps \cup {"delete", "delete_all", "size"}

\* Expiring<T>: a value with its absolute expiration time
Expiring == [value : Values, expires_at : Times]

\* Expiring::new
NewExpiring(v, t) == [value |-> v, expires_at |-> t]

\* return values of the public operations
NoResult == [tag |-> "none"]
OkEntry(e) == [tag |-> "ok", value |-> e.value, expires_at |-> e.expires_at]
OkValue(v) == [tag |-> "ok", value |-> v]
ErrResult(e) == [tag |-> "err", error |-> e]
UnitResult == [tag |-> "unit"]
CountResult(n) == [tag |-> "count", n |-> n]

\* the entry inside an Ok(...)
EntryOf(r) == NewExpiring(r.value, r.expires_at)

VARIABLES
    map,        \* the HashMap<String, Expiring<V>> behind the RwLock
    readers,    \* callers holding a read guard
    writer,     \* the caller holding the write guard, or NoCaller
    now,        \* SystemTime::now()
    pc,         \* position of each caller in its operation
    op,         \* the operation each caller runs
    key,        \* its key argument
    loaded,     \* the Result its awaited loader produced
    result,     \* what its call returned
    loads,      \* history: loader invocations per key
    invoked,    \* history: loader invocations made by each caller's call
    calls,      \* history: calls begun so far
    pre,        \* history: per caller, the map, the clock and the failure
                \* history when its call began
    origin,     \* history: per stored entry, the key that loaded it and the
                \* loader count of that key at the insert
    failed,     \* history: the keys of which a load has failed and none has
                \* succeeded since
    filled,     \* history: the keys in `failed` whose identifier another
                \* key has filled since their last failure
    cleared,    \* history: delete_all has run and nothing was inserted since
    produced,   \* history: per identifier, the entries its loads resolved to
    overlap     \* history: per caller, the callers whose calls were in
                \* progress at some time during its current call

vars == <<map, readers, writer, now, pc, op, key, loaded, result,
          loads, invoked, calls, pre, origin, failed, filled, cleared,
          produced, overlap>>

hist == <<loads, invoked, calls, pre, origin, failed, filled, cleared,
          produced, overlap>>

\* the key mapper G: Fn(&K) -> String; here keys 1 and 2 share an identifier,
\* keys 3 and 4 the next, and so on
Normalize(k) == (k + 1) \div 2

\* the identifiers the keys map to
Ids == {Normalize(k) : k \in Keys}

\* what `pre` holds for a caller outside a call
NoSnapshot ==
    [map |-> [i \in {} |-> 0], now |-> 0, failed |-> {}, filled |-> {}]

\* HashMap::new
EmptyMap == [i \in {} |-> 0]

\* variant: an insert replaces the whole map by the one entry
MapInsert_Only(m, i, e) == [j \in {i} |-> e]

\* HashMap::insert
MapInsert(m, i, e) == [j \in (DOMAIN m) \cup {i} |-> IF j = i THEN e ELSE m[j]]

\* variant: removing one identifier drops the others too
MapRemove_All(m, i) == [j \in {} |-> 0]

\* HashMap::remove
MapRemove(m, i) == [j \in (DOMAIN m) \ {i} |-> m[j]]

\* HashMap::len
MapLen(m) == Cardinality(DOMAIN m)

\* variant: an entry counts as expired from the instant expires_at on
IsExpired_AtDeadline(e, t) == t >= e.expires_at

\* Expiring::is_expired: SystemTime::now() > self.expires_at
IsExpired(e, t) == t > e.expires_at

\* variant: the lookup serves whatever entry is present, stale or not
HasNonExpired_AnyEntry(m, i, t) == i \in DOMAIN m

\* the lookup of get_non_expired: Some(item) iff present and not expired
HasNonExpired(m, i, t) == i \in DOMAIN m /\ ~IsExpired(m[i], t)

\* variant: get hands out the whole entry as get_with_expiry does
Returned_Whole(o, e) == OkEntry(e)

\* Cache::get unwraps the value, get_with_expiry returns the whole entry
Returned(o, e) == IF o = "get" THEN OkValue(e.value) ELSE OkEntry(e)

\* variant: the caller gets another error than the loader's
Propagated_Other(r) == ErrResult((r.error % NumErrors) + 1)

\* the `?` on the loader's Result hands its error to the caller
Propagated(r) == ErrResult(r.error)

\* Cache::new
Init ==
    /\ map = EmptyMap
    /\ readers = {}
    /\ writer = NoCaller
    /\ now = 0
    /\ pc = [p \in Callers |-> "idle"]
    /\ op = [p \in Callers |-> "none"]
    /\ key = [p \in Callers |-> 1]
    /\ loaded = [p \in Callers |-> NoResult]
    /\ result = [p \in Callers |-> NoResult]
    /\ loads = [k \in Keys |-> 0]
    /\ invoked = [p \in Callers |-> 0]
    /\ calls = 0
    /\ pre = [p \in Callers |-> NoSnapshot]
    /\ origin = EmptyMap
    /\ failed = {}
    /\ filled = {}
    /\ cleared = FALSE
    /\ produced = [i \in Ids |-> {}]
    /\ overlap = [p \in Callers |-> {}]

\* the callers inside a call that has not returned yet
InProgress == {q \in Callers : pc[q] \notin {"idle", "returned"}}

\* the passage of time
Tick ==
    /\ now < MaxTime
    /\ now' = now + 1
    /\ UNCHANGED <<map, readers, writer, pc, op, key, loaded, result, hist>>

\* a caller enters a public operation; get, get_with_expiry and size go for
\* the read lock first, delete and delete_all for the write lock.  Callers
\* outside a call are interchangeable: the first free one makes the call.
Call(p, o, k) ==
    /\ pc[p] = "idle"
    /\ \A q \in Callers : q < p => pc[q] # "idle"
    /\ calls < MaxCalls
    /\ o \in {"delete_all", "size"} => k = 1
    /\ op' = [op EXCEPT ![p] = o]
    /\ key' = [key EXCEPT ![p] = k]
    /\ pc' = [pc EXCEPT ![p] = IF o \in {"delete", "delete_all"}
                               THEN "wlock" ELSE "rlock"]
    /\ calls' = calls + 1
    /\ pre' = [pre EXCEPT ![p] = [map |-> map, now |-> now,
                                  failed |-> failed, filled |-> filled]]
    /\ overlap' = [q \in Callers |->
                     IF q = p THEN InProgress \ {p}
                     ELSE IF q \in InProgress THEN overlap[q] \cup {p}
                     ELSE overlap[q]]
    /\ UNCHANGED <<map, readers, writer, now, loaded, result,
                   loads, invoked, origin, failed, filled, cleared, produced>>

\* a call that begins while no other call is in progress
SeqCall(p, o, k) ==
    /\ \A q \in Callers : pc[q] = "idle"
    /\ Call(p, o, k)

\* RwLock::read: granted while no writer holds the lock
AcquireRead(p) ==
    /\ pc[p] = "rlock"
    /\ writer = NoCaller
    /\ readers' = readers \cup {p}
    /\ pc' = [pc EXCEPT ![p] = "read"]
    /\ UNCHANGED <<map, writer, now, op, key, loaded, result, hist>>

\* RwLock::write: granted while nobody holds the lock
AcquireWrite(p) ==
    /\ pc[p] = "wlock"
    /\ writer = NoCaller
    /\ readers = {}
    /\ writer' = p
    /\ pc' = [pc EXCEPT ![p] = "write"]
    /\ UNCHANGED <<map, readers, now, op, key, loaded, result, hist>>

\* variant: the lookup goes to another identifier than the insert does
GetNonExpired_OtherSlot(p) ==
    /\ pc[p] = "read"
    /\ op[p] \in GetOps
    /\ readers' = readers \ {p}
    /\ IF HasNonExpired(map, Normalize(NumKeys + 1 - key[p]), now)
       THEN /\ result' = [result EXCEPT
                            ![p] = Returned(op[p],
                                     map[Normalize(NumKeys + 1 - key[p])])]
            /\ pc' = [pc EXCEPT ![p] = "returned"]
       ELSE /\ result' = result
            /\ pc' = [pc EXCEPT ![p] = "miss"]
    /\ UNCHANGED <<map, writer, now, op, key, loaded, hist>>

\* variant: the lookup evicts the expired entry it finds
GetNonExpired_Evicts(p) ==
    /\ pc[p] = "read"
    /\ op[p] \in GetOps
    /\ readers' = readers \ {p}
    /\ IF HasNonExpired(map, Normalize(key[p]), now)
       THEN /\ result' = [result EXCEPT
                            ![p] = Returned(op[p], map[Normalize(key[p])])]
            /\ pc' = [pc EXCEPT ![p] = "returned"]
       ELSE /\ result' = result
            /\ pc' = [pc EXCEPT ![p] = "miss"]
    /\ map' = IF HasNonExpired(map, Normalize(key[p]), now)
              THEN map ELSE MapRemove(map, Normalize(key[p]))
    /\ origin' = IF HasNonExpired(map, Normalize(key[p]), now)
                 THEN origin ELSE MapRemove(origin, Normalize(key[p]))
    /\ UNCHANGED <<writer, now, op, key, loaded,
                   loads, invoked, calls, pre, failed, filled, cleared,
                   produced, overlap>>

\* variant: on a miss the read guard is kept while the loader runs
GetNonExpired_KeepsGuard(p) ==
    /\ pc[p] = "read"
    /\ op[p] \in GetOps
    /\ IF HasNonExpired(map, Normalize(key[p]), now)
       THEN /\ result' = [result EXCEPT
                            ![p] = Returned(op[p], map[Normalize(key[p])])]
            /\ pc' = [pc EXCEPT ![p] = "returned"]
            /\ readers' = readers \ {p}
       ELSE /\ result' = result
            /\ pc' = [pc EXCEPT ![p] = "miss"]
            /\ readers' = readers
    /\ UNCHANGED <<map, writer, now, op, key, loaded, hist>>

\* variant: a hit pushes the expiry of the entry it serves to the horizon
GetNonExpired_Refreshes(p) ==
    /\ pc[p] = "read"
    /\ op[p] \in GetOps
    /\ readers' = readers \ {p}
    /\ IF HasNonExpired(map, Normalize(key[p]), now)
       THEN /\ result' = [result EXCEPT
                            ![p] = Returned(op[p], map[Normalize(key[p])])]
            /\ pc' = [pc EXCEPT ![p] = "returned"]
            /\ map' = [map EXCEPT ![Normalize(key[p])].expires_at = MaxTime]
       ELSE /\ result' = result
            /\ pc' = [pc EXCEPT ![p] = "miss"]
            /\ map' = map
    /\ UNCHANGED <<writer, now, op, key, loaded, hist>>

\* get_non_expired under the read guard: a hit returns a clone of the entry,
\* anything else falls through to the loader
GetNonExpired(p) ==
    /\ pc[p] = "read"
    /\ op[p] \in GetOps
    /\ readers' = readers \ {p}
    /\ IF HasNonExpired(map, Normalize(key[p]), now)
       THEN /\ result' = [result EXCEPT
                            ![p] = Returned(op[p], map[Normalize(key[p])])]
            /\ pc' = [pc EXCEPT ![p] = "returned"]
       ELSE /\ result' = result
            /\ pc' = [pc EXCEPT ![p] = "miss"]
    /\ UNCHANGED <<map, writer, now, op, key, loaded, hist>>

\* variant: the loader is invoked, dropped and invoked again
InvokeLoader_Twice(p) ==
    /\ pc[p] = "miss"
    /\ loads' = [loads EXCEPT ![key[p]] = @ + 2]
    /\ invoked' = [invoked EXCEPT ![p] = @ + 2]
    /\ pc' = [pc EXCEPT ![p] = "pending"]
    /\ UNCHANGED <<map, readers, writer, now, op, key, loaded, result,
                   calls, pre, origin, failed, filled, cleared, produced,
                   overlap>>

\* load_and_cache_item: (self.load)(key), the loader is invoked and awaited
InvokeLoader(p) ==
    /\ pc[p] = "miss"
    /\ loads' = [loads EXCEPT ![key[p]] = @ + 1]
    /\ invoked' = [invoked EXCEPT ![p] = @ + 1]
    /\ pc' = [pc EXCEPT ![p] = "pending"]
    /\ UNCHANGED <<map, readers, writer, now, op, key, loaded, result,
                   calls, pre, origin, failed, filled, cleared, produced,
                   overlap>>

\* the loader resolves to Ok(item); the call goes on to the insert
LoaderOk(p, v, t) ==
    /\ pc[p] = "pending"
    /\ loaded' = [loaded EXCEPT ![p] = OkEntry(NewExpiring(v, t))]
    /\ pc' = [pc EXCEPT ![p] = "wlock"]
    /\ produced' = [produced EXCEPT
                       ![Normalize(key[p])] = @ \cup {NewExpiring(v, t)}]
    /\ UNCHANGED <<map, readers, writer, now, op, key, result,
                   loads, invoked, calls, pre, origin, failed, filled, cleared,
                   overlap>>

\* variant: a failed load evicts the entry at the identifier
LoaderErr_Evicts(p, e) ==
    /\ pc[p] = "pending"
    /\ loaded' = [loaded EXCEPT ![p] = ErrResult(e)]
    /\ result' = [result EXCEPT ![p] = Propagated(ErrResult(e))]
    /\ pc' = [pc EXCEPT ![p] = "returned"]
    /\ failed' = failed \cup {key[p]}
    /\ filled' = filled \ {key[p]}
    /\ map' = MapRemove(map, Normalize(key[p]))
    /\ origin' = MapRemove(origin, Normalize(key[p]))
    /\ UNCHANGED <<readers, writer, now, op, key,
                   loads, invoked, calls, pre, cleared, produced, overlap>>

\* variant: a failed load is cached as a placeholder entry
LoaderErr_Poisons(p, e) ==
    /\ pc[p] = "pending"
    /\ loaded' = [loaded EXCEPT ![p] = ErrResult(e)]
    /\ result' = [result EXCEPT ![p] = Propagated(ErrResult(e))]
    /\ pc' = [pc EXCEPT ![p] = "returned"]
    /\ failed' = failed \cup {key[p]}
    /\ filled' = filled \ {key[p]}
    /\ map' = MapInsert(map, Normalize(key[p]), NewExpiring(1, MaxTime))
    /\ origin' = MapInsert(origin, Normalize(key[p]),
                           [key |-> key[p], count |-> loads[key[p]]])
    /\ UNCHANGED <<readers, writer, now, op, key,
                   loads, invoked, calls, pre, cleared, produced, overlap>>

\* the loader resolves to Err(e); `?` returns it to the caller
LoaderErr(p, e) ==
    /\ pc[p] = "pending"
    /\ loaded' = [loaded EXCEPT ![p] = ErrResult(e)]
    /\ result' = [result EXCEPT ![p] = Propagated(ErrResult(e))]
    /\ pc' = [pc EXCEPT ![p] = "returned"]
    /\ failed' = failed \cup {key[p]}
    /\ filled' = filled \ {key[p]}
    /\ UNCHANGED <<map, readers, writer, now, op, key,
                   loads, invoked, calls, pre, origin, cleared, produced,
                   overlap>>

\* what a caller keeps of a call once it is over
Forget(p) ==
    /\ pc' = [pc EXCEPT ![p] = "idle"]
    /\ op' = [op EXCEPT ![p] = "none"]
    /\ key' = [key EXCEPT ![p] = 1]
    /\ loaded' = [loaded EXCEPT ![p] = NoResult]
    /\ result' = [result EXCEPT ![p] = NoResult]
    /\ invoked' = [invoked EXCEPT ![p] = 0]
    /\ overlap' = [overlap EXCEPT ![p] = {}]
    /\ pre' = [pre EXCEPT ![p] = NoSnapshot]

\* variant: dropping the call evicts the entry at its identifier
Cancel_Evicts(p) ==
    /\ pc[p] = "pending"
    /\ Forget(p)
    /\ map' = MapRemove(map, Normalize(key[p]))
    /\ origin' = MapRemove(origin, Normalize(key[p]))
    /\ UNCHANGED <<readers, writer, now,
                   loads, calls, failed, filled, cleared, produced>>

\* the future of the call is dropped while it awaits the loader
Cancel(p) ==
    /\ pc[p] = "pending"
    /\ Forget(p)
    /\ UNCHANGED <<map, readers, writer, now,
                   loads, calls, origin, failed, filled, cleared, produced>>

\* variant: the insert leaves a live entry that got there meanwhile in place
InsertItem_KeepLive(p) ==
    /\ pc[p] = "write"
    /\ op[p] \in GetOps
    /\ map' = IF HasNonExpired(map, Normalize(key[p]), now)
              THEN map
              ELSE MapInsert(map, Normalize(key[p]), EntryOf(loaded[p]))
    /\ writer' = NoCaller
    /\ result' = [result EXCEPT ![p] = Returned(op[p], EntryOf(loaded[p]))]
    /\ pc' = [pc EXCEPT ![p] = "returned"]
    /\ origin' = MapInsert(origin, Normalize(key[p]),
                           [key |-> key[p], count |-> loads[key[p]]])
    /\ failed' = failed \ {key[p]}
    /\ filled' = (filled \ {key[p]}) \cup
                    {k \in failed \ {key[p]} : Normalize(k) = Normalize(key[p])}
    /\ cleared' = FALSE
    /\ UNCHANGED <<readers, now, op, key, loaded,
                   loads, invoked, calls, pre, produced, overlap>>

\* variant: the cache stamps the entry with the time of the insert
InsertItem_Stamped(p) ==
    /\ pc[p] = "write"
    /\ op[p] \in GetOps
    /\ map' = MapInsert(map, Normalize(key[p]),
                        NewExpiring(loaded[p].value, now))
    /\ writer' = NoCaller
    /\ result' = [result EXCEPT ![p] = Returned(op[p], EntryOf(loaded[p]))]
    /\ pc' = [pc EXCEPT ![p] = "returned"]
    /\ origin' = MapInsert(origin, Normalize(key[p]),
                           [key |-> key[p], count |-> loads[key[p]]])
    /\ failed' = failed \ {key[p]}
    /\ filled' = (filled \ {key[p]}) \cup
                    {k \in failed \ {key[p]} : Normalize(k) = Normalize(key[p])}
    /\ cleared' = FALSE
    /\ UNCHANGED <<readers, now, op, key, loaded,
                   loads, invoked, calls, pre, produced, overlap>>

\* variant: a load that a delete_all has overtaken is not inserted
InsertItem_Invalidated(p) ==
    /\ pc[p] = "write"
    /\ op[p] \in GetOps
    /\ map' = IF cleared
              THEN map
              ELSE MapInsert(map, Normalize(key[p]), EntryOf(loaded[p]))
    /\ writer' = NoCaller
    /\ result' = [result EXCEPT ![p] = Returned(op[p], EntryOf(loaded[p]))]
    /\ pc' = [pc EXCEPT ![p] = "returned"]
    /\ origin' = IF cleared
                 THEN origin
                 ELSE MapInsert(origin, Normalize(key[p]),
                                [key |-> key[p], count |-> loads[key[p]]])
    /\ failed' = failed \ {key[p]}
    /\ filled' = (filled \ {key[p]}) \cup
                    {k \in failed \ {key[p]} : Normalize(k) = Normalize(key[p])}
    /\ cleared' = cleared
    /\ UNCHANGED <<readers, now, op, key, loaded,
                   loads, invoked, calls, pre, produced, overlap>>

\* variant: an entry that is already expired is returned but not stored
InsertItem_SkipsExpired(p) ==
    /\ pc[p] = "write"
    /\ op[p] \in GetOps
    /\ map' = IF IsExpired(EntryOf(loaded[p]), now)
              THEN map
              ELSE MapInsert(map, Normalize(key[p]), EntryOf(loaded[p]))
    /\ writer' = NoCaller
    /\ result' = [result EXCEPT ![p] = Returned(op[p], EntryOf(loaded[p]))]
    /\ pc' = [pc EXCEPT ![p] = "returned"]
    /\ origin' = IF IsExpired(EntryOf(loaded[p]), now)
                 THEN origin
                 ELSE MapInsert(origin, Normalize(key[p]),
                                [key |-> key[p], count |-> loads[key[p]]])
    /\ failed' = failed \ {key[p]}
    /\ filled' = (filled \ {key[p]}) \cup
                    {k \in failed \ {key[p]} : Normalize(k) = Normalize(key[p])}
    /\ cleared' = (cleared /\ IsExpired(EntryOf(loaded[p]), now))
    /\ UNCHANGED <<readers, now, op, key, loaded,
                   loads, invoked, calls, pre, produced, overlap>>

\* variant: the entry is stored under the key itself, not its identifier
InsertItem_RawKey(p) ==
    /\ pc[p] = "write"
    /\ op[p] \in GetOps
    /\ map' = MapInsert(map, key[p], EntryOf(loaded[p]))
    /\ writer' = NoCaller
    /\ result' = [result EXCEPT ![p] = Returned(op[p], EntryOf(loaded[p]))]
    /\ pc' = [pc EXCEPT ![p] = "returned"]
    /\ origin' = MapInsert(origin, key[p],
                           [key |-> key[p], count |-> loads[key[p]]])
    /\ failed' = failed \ {key[p]}
    /\ filled' = (filled \ {key[p]}) \cup
                    {k \in failed \ {key[p]} : Normalize(k) = Normalize(key[p])}
    /\ cleared' = FALSE
    /\ UNCHANGED <<readers, now, op, key, loaded,
                   loads, invoked, calls, pre, produced, overlap>>

\* load_and_cache_item under the write guard: map.insert(identifier, item)
InsertItem(p) ==
    /\ pc[p] = "write"
    /\ op[p] \in GetOps
    /\ map' = MapInsert(map, Normalize(key[p]), EntryOf(loaded[p]))
    /\ writer' = NoCaller
    /\ result' = [result EXCEPT ![p] = Returned(op[p], EntryOf(loaded[p]))]
    /\ pc' = [pc EXCEPT ![p] = "returned"]
    /\ origin' = MapInsert(origin, Normalize(key[p]),
                           [key |-> key[p], count |-> loads[key[p]]])
    /\ failed' = failed \ {key[p]}
    /\ filled' = (filled \ {key[p]}) \cup
                    {k \in failed \ {key[p]} : Normalize(k) = Normalize(key[p])}
    /\ cleared' = FALSE
    /\ UNCHANGED <<readers, now, op, key, loaded,
                   loads, invoked, calls, pre, produced, overlap>>

\* variant: delete removes the slot named by the key itself
Delete_RawKey(p) ==
    /\ pc[p] = "write"
    /\ op[p] = "delete"
    /\ map' = MapRemove(map, key[p])
    /\ writer' = NoCaller
    /\ result' = [result EXCEPT ![p] = UnitResult]
    /\ pc' = [pc EXCEPT ![p] = "returned"]
    /\ origin' = MapRemove(origin, key[p])
    /\ UNCHANGED <<readers, now, op, key, loaded,
                   loads, invoked, calls, pre, failed, filled, cleared,
                   produced, overlap>>

\* Cache::delete under the write guard: map.remove(&identifier)
Delete(p) ==
    /\ pc[p] = "write"
    /\ op[p] = "delete"
    /\ map' = MapRemove(map, Normalize(key[p]))
    /\ writer' = NoCaller
    /\ result' = [result EXCEPT ![p] = UnitResult]
    /\ pc' = [pc EXCEPT ![p] = "returned"]
    /\ origin' = MapRemove(origin, Normalize(key[p]))
    /\ UNCHANGED <<readers, now, op, key, loaded,
                   loads, invoked, calls, pre, failed, filled, cleared,
                   produced, overlap>>

\* variant: delete_all removes a single identifier
DeleteAll_One(p) ==
    /\ pc[p] = "write"
    /\ op[p] = "delete_all"
    /\ map' = MapRemove(map, Normalize(key[p]))
    /\ writer' = NoCaller
    /\ result' = [result EXCEPT ![p] = UnitResult]
    /\ pc' = [pc EXCEPT ![p] = "returned"]
    /\ origin' = MapRemove(origin, Normalize(key[p]))
    /\ cleared' = TRUE
    /\ UNCHANGED <<readers, now, op, key, loaded,
                   loads, invoked, calls, pre, failed, filled, produced,
                   overlap>>

\* Cache::delete_all under the write guard: map.clear()
DeleteAll(p) ==
    /\ pc[p] = "write"
    /\ op[p] = "delete_all"
    /\ map' = EmptyMap
    /\ writer' = NoCaller
    /\ result' = [result EXCEPT ![p] = UnitResult]
    /\ pc' = [pc EXCEPT ![p] = "returned"]
    /\ origin' = EmptyMap
    /\ cleared' = TRUE
    /\ UNCHANGED <<readers, now, op, key, loaded,
                   loads, invoked, calls, pre, failed, filled, produced,
                   overlap>>

\* Cache::size under the read guard: map.len()
Size(p) ==
    /\ pc[p] = "read"
    /\ op[p] = "size"
    /\ readers' = readers \ {p}
    /\ result' = [result EXCEPT ![p] = CountResult(MapLen(map))]
    /\ pc' = [pc EXCEPT ![p] = "returned"]
    /\ UNCHANGED <<map, writer, now, op, key, loaded, hist>>

\* the caller has taken the return value and is free to call again
Finish(p) ==
    /\ pc[p] = "returned"
    /\ Forget(p)
    /\ UNCHANGED <<map, readers, writer, now,
                   loads, calls, origin, failed, filled, cleared, produced>>

Step(p) ==
    \/ AcquireRead(p)
    \/ AcquireWrite(p)
    \/ GetNonExpired(p)
    \/ InvokeLoader(p)
    \/ \E v \in Values, t \in Times : LoaderOk(p, v, t)
    \/ \E e \in Errors : LoaderErr(p, e)
    \/ Cancel(p)
    \/ InsertItem(p)
    \/ Delete(p)
    \/ DeleteAll(p)
    \/ Size(p)
    \/ Finish(p)

\* callers on any number of threads and tasks
Next ==
    \/ Tick
    \/ \E p \in Callers, o \in Ops, k \in Keys : Call(p, o, k)
    \/ \E p \in Callers : Step(p)

Spec == Init /\ [][Next]_vars

\* one call at a time, as a single task awaiting each call makes them
NextSeq ==
    \/ Tick
    \/ \E p \in Callers, o \in Ops, k \in Keys : SeqCall(p, o, k)
    \/ \E p \in Callers : Step(p)

SpecSeq == Init /\ [][NextSeq]_vars

\* a call among the first MaxLiveCalls
LiveCall(p, o, k) ==
    /\ calls < MaxLiveCalls
    /\ Call(p, o, k)

\* callers on any number of threads and tasks, a bounded number of calls
NextLive ==
    \/ Tick
    \/ \E p \in Callers, o \in Ops, k \in Keys : LiveCall(p, o, k)
    \/ \E p \in Callers : Step(p)

\* what the scheduler and the lock owe a caller.  A thread that is not
\* waiting runs: the steps of the caller's own code are weakly fair.  The
\* lock is granted to a waiting caller that can take it again and again:
\* taking the lock is strongly fair.  Nothing is owed for the loader, for
\* the passage of time, or for what the callers decide themselves (to call,
\* to drop a call, to call again).
Fairness ==
    \A p \in Callers :
        /\ SF_vars(AcquireRead(p))
        /\ SF_vars(AcquireWrite(p))
        /\ WF_vars(GetNonExpired(p))
        /\ WF_vars(InvokeLoader(p))
        /\ WF_vars(InsertItem(p))
        /\ WF_vars(Delete(p))
        /\ WF_vars(DeleteAll(p))
        /\ WF_vars(Size(p))

SpecLive == Init /\ [][NextLive]_vars /\ Fairness

\* ---- vocabulary of the properties ----

\* the identifier of the key of p's call
IdOf(p) == Normalize(key[p])

\* p's get or get_with_expiry call has returned
GetDone(p) == pc[p] = "returned" /\ op[p] \in GetOps

\* p's call began on a store holding, at its identifier, an entry that is
\* still unexpired now (now <= expires_at), hence was so all through the call
LiveSinceCall(p) ==
    /\ IdOf(p) \in DOMAIN pre[p].map
    /\ now <= pre[p].map[IdOf(p)].expires_at

\* p's call began on a store holding an expired entry at its identifier
StaleAtCall(p) ==
    /\ IdOf(p) \in DOMAIN pre[p].map
    /\ pre[p].now > pre[p].map[IdOf(p)].expires_at

\* C1 (calls made one at a time): once a get(K) has loaded an entry, and
\* while that entry is in the store and unexpired, a further get(K) returns
\* the value of that entry without invoking the loader, and the loader count
\* of K is still what it was when the entry was loaded.
C1_IdempotentHit ==
    \A p \in Callers :
        ( /\ GetDone(p)
          /\ LiveSinceCall(p)
          /\ IdOf(p) \in DOMAIN origin
          /\ origin[IdOf(p)].key = key[p] )
        => /\ result[p].tag = "ok"
           /\ result[p].value = pre[p].map[IdOf(p)].value
           /\ invoked[p] = 0
           /\ loads[key[p]] = origin[IdOf(p)].count

\* a get(K) served from the entry an earlier get(K) loaded, at the very
\* instant now = expires_at, the loader having run once for K
C1_Witness ==
    \E p \in Callers :
        /\ GetDone(p)
        /\ LiveSinceCall(p)
        /\ now = pre[p].map[IdOf(p)].expires_at
        /\ pre[p].now > 0
        /\ IdOf(p) \in DOMAIN origin
        /\ origin[IdOf(p)].key = key[p]
        /\ invoked[p] = 0
        /\ loads[key[p]] = 1
        /\ result[p].value = pre[p].map[IdOf(p)].value

\* C2 (calls made one at a time): a get(K) called while the entry at K's
\* identifier is expired invokes the loader exactly once, returns the value
\* the loader produced, leaves that entry in the slot of the stale one, and
\* size() is what it was before the call.
C2_ExpiryTriggersReload ==
    \A p \in Callers :
        (GetDone(p) /\ StaleAtCall(p))
        => /\ invoked[p] = 1
           /\ MapLen(map) = MapLen(pre[p].map)
           /\ loaded[p].tag = "ok" =>
                /\ result[p].tag = "ok"
                /\ result[p].value = loaded[p].value
                /\ IdOf(p) \in DOMAIN map
                /\ map[IdOf(p)].value = loaded[p].value
                /\ map[IdOf(p)].expires_at = loaded[p].expires_at

\* a reload over a stale entry whose fresh value differs from the stale one
C2_Witness ==
    \E p \in Callers :
        /\ GetDone(p)
        /\ StaleAtCall(p)
        /\ loaded[p].tag = "ok"
        /\ loaded[p].value # pre[p].map[IdOf(p)].value
        /\ result[p].value = loaded[p].value
        /\ MapLen(map) = 1

\* C3 (calls made one at a time): a get or get_with_expiry whose loader
\* invocation fails leaves the store exactly as it was before the call.
C3_FailedLoadLeavesStore ==
    \A p \in Callers :
        (GetDone(p) /\ loaded[p].tag = "err") => map = pre[p].map

\* a failed reload over a stale entry, with another identifier in the store
C3_Witness ==
    \E p \in Callers :
        /\ GetDone(p)
        /\ loaded[p].tag = "err"
        /\ StaleAtCall(p)
        /\ MapLen(pre[p].map) = 2
        /\ map = pre[p].map

\* a successful load made by p's call is what the call returned and what the
\* store now holds at the identifier
LoadReturnedAndCached(p) ==
    (invoked[p] = 1 /\ loaded[p].tag = "ok")
    => /\ result[p].tag = "ok"
       /\ result[p].value = loaded[p].value
       /\ IdOf(p) \in DOMAIN map
       /\ map[IdOf(p)].value = loaded[p].value
       /\ map[IdOf(p)].expires_at = loaded[p].expires_at

\* a get(K) on the unexpired entry a get(K) loaded is a hit
HitAfterLoad(p) ==
    ( /\ LiveSinceCall(p)
      /\ IdOf(p) \in DOMAIN origin
      /\ origin[IdOf(p)].key = key[p] )
    => invoked[p] = 0

\* C4 as claimed (calls made one at a time): after a get(K) has failed, every
\* later get(K) invokes the loader until an invocation for K succeeds; the
\* successful one returns its value and caches it, and the get(K) calls after
\* it, while the entry is unexpired, are hits.
C4_Claimed ==
    \A p \in Callers :
        GetDone(p)
        => /\ key[p] \in pre[p].failed => invoked[p] = 1
           /\ LoadReturnedAndCached(p)
           /\ HitAfterLoad(p)

\* C4 as amended (calls made one at a time): after a get(K) has failed, every
\* later get(K) invokes the loader until an invocation for K, or for another
\* key with K's identifier, succeeds; the rest as claimed.
C4_NoNegativeCaching ==
    \A p \in Callers :
        GetDone(p)
        => /\ key[p] \in pre[p].failed \ pre[p].filled => invoked[p] = 1
           /\ LoadReturnedAndCached(p)
           /\ HitAfterLoad(p)

\* a get(K) called after a get(K) had failed: it invoked the loader again,
\* which succeeded this time, and the value is returned and cached
C4_Witness ==
    \E p \in Callers :
        /\ GetDone(p)
        /\ key[p] \in pre[p].failed \ pre[p].filled
        /\ invoked[p] = 1
        /\ loads[key[p]] = 2
        /\ result[p].tag = "ok"
        /\ IdOf(p) \in DOMAIN map
        /\ map[IdOf(p)].value = result[p].value

\* C5: a get/get_with_expiry call returns an error iff the loader invocation
\* it made failed, the error is the loader's, no call invokes the loader more
\* than once, and a call that invoked no loader returns Ok.
C5_ErrorIffLoaderFailed ==
    \A p \in Callers :
        /\ invoked[p] <= 1
        /\ loaded[p].tag # "none" => invoked[p] = 1
        /\ GetDone(p)
           => /\ result[p].tag \in {"ok", "err"}
              /\ (result[p].tag = "err") = (loaded[p].tag = "err")
              /\ result[p].tag = "err" => result[p].error = loaded[p].error
              /\ invoked[p] = 0 => result[p].tag = "ok"

\* a call returning the second of the loader's errors while another caller
\* is served from a live entry
C5_Witness ==
    \E p, q \in Callers :
        /\ GetDone(p)
        /\ loaded[p].tag = "err"
        /\ loaded[p].error = NumErrors
        /\ result[p].error = NumErrors
        /\ GetDone(q)
        /\ invoked[q] = 0
        /\ result[q].tag = "ok"

\* C6 (calls made one at a time): delete(K) leaves no entry at K's
\* identifier, leaves every other identifier as it was, lowers size() by 1 if
\* the entry was present and by 0 if not, changes nothing when the key is
\* absent, and returns no error.
C6_DeleteExactlyOne ==
    \A p \in Callers :
        (pc[p] = "returned" /\ op[p] = "delete")
        => /\ IdOf(p) \notin DOMAIN map
           /\ \A j \in Ids \ {IdOf(p)} :
                /\ (j \in DOMAIN map) = (j \in DOMAIN pre[p].map)
                /\ j \in DOMAIN map => map[j] = pre[p].map[j]
           /\ MapLen(map) + (IF IdOf(p) \in DOMAIN pre[p].map THEN 1 ELSE 0)
                = MapLen(pre[p].map)
           /\ IdOf(p) \notin DOMAIN pre[p].map => map = pre[p].map
           /\ result[p] = UnitResult

\* a delete of a present key from a store holding another identifier too
C6_Witness ==
    \E p \in Callers :
        /\ pc[p] = "returned"
        /\ op[p] = "delete"
        /\ IdOf(p) \in DOMAIN pre[p].map
        /\ MapLen(pre[p].map) = 2
        /\ MapLen(map) = 1

\* C7 (calls made one at a time): a size() call made after delete_all() has
\* returned, with no load in between, yields 0 whatever the store held.
C7_DeleteAllThenSizeZero ==
    \A p \in Callers :
        (pc[p] = "returned" /\ op[p] = "size" /\ cleared) => result[p].n = 0

\* size() yielding 0 after a delete_all() on a store that a load had filled
C7_Witness ==
    \E p \in Callers, i \in Ids :
        /\ pc[p] = "returned"
        /\ op[p] = "size"
        /\ cleared
        /\ produced[i] # {}
        /\ result[p].n = 0

\* the callers inside, or back from, a get or get_with_expiry call
Getters == {p \in Callers : op[p] \in GetOps}

\* the cache was created empty and all that has happened to it since are the
\* calls of the Getters, each still held by its caller
OnlyGets == Getters # {} /\ calls = Cardinality(Getters)

AllReturned == \A p \in Getters : pc[p] = "returned"

\* the calls of the Getters were all in progress together
AllOverlap == \A p \in Getters : overlap[p] = Getters \ {p}

\* C8: from an empty cache, concurrent gets for keys with pairwise distinct
\* identifiers, none of whose loads fails, each return the value their own
\* load produced, and once all have returned size() is their number.
C8_ConcurrentDistinctKeys ==
    ( /\ OnlyGets
      /\ AllReturned
      /\ \A p, q \in Getters : p # q => IdOf(p) # IdOf(q)
      /\ \A p \in Getters : loaded[p].tag # "err" )
    => /\ \A p \in Getters :
            /\ result[p].tag = "ok"
            /\ invoked[p] = 1
            /\ result[p].value = loaded[p].value
       /\ MapLen(map) = Cardinality(Getters)

\* every caller back from an overlapping get of its own identifier, the
\* values not all the same
C8_Witness ==
    /\ Getters = Callers
    /\ OnlyGets
    /\ AllReturned
    /\ AllOverlap
    /\ \A p, q \in Getters : p # q => IdOf(p) # IdOf(q)
    /\ \A p \in Getters : result[p].tag = "ok"
    /\ \E p, q \in Getters : result[p].value # result[q].value
    /\ MapLen(map) = NumCallers

\* the values the loads for identifier i have resolved to
ProducedValues(i) == {e.value : e \in produced[i]}

\* C9 as claimed: get calls for the same key that were in progress together
\* all return the same value.
C9_Claimed ==
    \A p, q \in Callers :
        ( /\ GetDone(p) /\ GetDone(q)
          /\ key[p] = key[q]
          /\ q \in overlap[p]
          /\ result[p].tag = "ok" /\ result[q].tag = "ok" )
        => result[p].value = result[q].value

\* C9 as amended: get calls for the same key that return Ok all return the
\* same value provided the loads for the key's identifier have all resolved
\* to one value.
C9_SameKeySameValue ==
    \A p, q \in Callers :
        ( /\ GetDone(p) /\ GetDone(q)
          /\ key[p] = key[q]
          /\ result[p].tag = "ok" /\ result[q].tag = "ok"
          /\ Cardinality(ProducedValues(IdOf(p))) <= 1 )
        => result[p].value = result[q].value

\* two overlapping gets of one key that both missed and both loaded
C9_Witness ==
    \E p, q \in Callers :
        /\ p # q
        /\ GetDone(p) /\ GetDone(q)
        /\ key[p] = key[q]
        /\ q \in overlap[p]
        /\ invoked[p] = 1 /\ invoked[q] = 1
        /\ result[p].tag = "ok" /\ result[q].tag = "ok"
        /\ Cardinality(ProducedValues(IdOf(p))) = 1
        /\ result[p].value = result[q].value

\* C10: from an empty cache, once concurrent gets for one key have all
\* returned Ok, size() is 1 and the loader has run at least once and at most
\* once per call.
C10_ConcurrentSameKeyCounts ==
    ( /\ OnlyGets
      /\ AllReturned
      /\ \A p, q \in Getters : key[p] = key[q]
      /\ \A p \in Getters : result[p].tag = "ok" )
    => /\ MapLen(map) = 1
       /\ \A p \in Getters :
            /\ DOMAIN map = {IdOf(p)}
            /\ loads[key[p]] >= 1
            /\ loads[key[p]] <= Cardinality(Getters)

\* no single flight: every caller's overlapping get of the key ran the loader
C10_Witness ==
    /\ Getters = Callers
    /\ OnlyGets
    /\ AllReturned
    /\ AllOverlap
    /\ \A p, q \in Getters : key[p] = key[q]
    /\ \A p \in Getters : result[p].tag = "ok" /\ loads[key[p]] = NumCallers
    /\ MapLen(map) = 1

\* the other end: overlapping gets of the key with a single run of the loader
C10_SingleLoadReachable ==
    /\ Getters = Callers
    /\ OnlyGets
    /\ AllReturned
    /\ AllOverlap
    /\ \A p, q \in Getters : key[p] = key[q]
    /\ \A p \in Getters : result[p].tag = "ok" /\ loads[key[p]] = 1
    /\ MapLen(map) = 1

\* ---- vocabulary of the step properties ----

\* the step is the insert of p's successful load
InsertStep(p) == pc[p] = "write" /\ op[p] \in GetOps /\ pc'[p] = "returned"

\* the step is the critical section of p's delete or delete_all
RemoveStep(p) ==
    pc[p] = "write" /\ op[p] \in {"delete", "delete_all"} /\ pc'[p] = "returned"

\* the step is the critical section of p's size
SizeStep(p) == pc[p] = "read" /\ op[p] = "size" /\ pc'[p] = "returned"

\* C11: size() returns the number of identifiers in the store, stale entries
\* included; no step but the critical section of a delete or delete_all
\* lowers that number (not the passage of time, not a hit, a reload or a
\* failed load), and no step but the insert of a successful load for an
\* identifier absent from the store raises it, by exactly 1.
C11_LazyExpiryKeepsEntries ==
    [][ /\ \A p \in Callers :
             SizeStep(p) => result'[p].n = Cardinality(DOMAIN map)
        /\ Cardinality(DOMAIN map') < Cardinality(DOMAIN map)
             => \E p \in Callers : RemoveStep(p)
        /\ Cardinality(DOMAIN map') > Cardinality(DOMAIN map)
             => /\ Cardinality(DOMAIN map') = Cardinality(DOMAIN map) + 1
                /\ \E p \in Callers :
                     /\ InsertStep(p)
                     /\ loaded[p].tag = "ok"
                     /\ IdOf(p) \notin DOMAIN map
        /\ \A p \in Callers :
             (InsertStep(p) /\ IdOf(p) \in DOMAIN map)
             => Cardinality(DOMAIN map') = Cardinality(DOMAIN map)
      ]_vars

\* size() counting an entry that has expired and whose reload has failed
C11_Witness ==
    \E p \in Callers, k \in failed :
        /\ pc[p] = "returned"
        /\ op[p] = "size"
        /\ result[p].n = 1
        /\ Normalize(k) \in DOMAIN map
        /\ origin[Normalize(k)].key = k
        /\ now > map[Normalize(k)].expires_at

\* the entry p's returned call was served: the stored one on a hit, the
\* loader's on a load; it does not depend on which of the two operations ran
ServedEntry(p) ==
    IF invoked[p] = 0
    THEN pre[p].map[IdOf(p)]
    ELSE [value |-> loaded[p].value, expires_at |-> loaded[p].expires_at]

\* the store a call leaves that began on store m and loaded entry e at i
StoreAfterLoad(m, i, e) ==
    [j \in (DOMAIN m) \cup {i} |-> IF j = i THEN e ELSE m[j]]

\* C12 (calls made one at a time): what a get or get_with_expiry call does is
\* decided by the store and the clock at the call and by the loader's
\* outcome, not by which of the two it is: the same lookup decides whether
\* the loader is invoked, the store it leaves is the same, an error is
\* returned as the same error, and where get_with_expiry returns an entry get
\* returns exactly the value of that entry.
C12_GetIsGetWithExpiry ==
    \A p \in Callers :
        GetDone(p)
        => /\ LiveSinceCall(p) => invoked[p] = 0
           /\ (IdOf(p) \notin DOMAIN pre[p].map \/ StaleAtCall(p))
                => invoked[p] = 1
           /\ invoked[p] = 0
                => /\ IdOf(p) \in DOMAIN pre[p].map
                   /\ map = pre[p].map
           /\ (invoked[p] = 1 /\ loaded[p].tag = "ok")
                => map = StoreAfterLoad(pre[p].map, IdOf(p), ServedEntry(p))
           /\ loaded[p].tag = "err"
                => /\ map = pre[p].map
                   /\ result[p] = [tag |-> "err", error |-> loaded[p].error]
           /\ loaded[p].tag # "err"
                => result[p] =
                     IF op[p] = "get"
                     THEN [tag |-> "ok", value |-> ServedEntry(p).value]
                     ELSE [tag |-> "ok", value |-> ServedEntry(p).value,
                           expires_at |-> ServedEntry(p).expires_at]

\* a get that reloaded a stale entry and returned the bare value
C12_Witness ==
    \E p \in Callers :
        /\ GetDone(p)
        /\ op[p] = "get"
        /\ StaleAtCall(p)
        /\ invoked[p] = 1
        /\ loaded[p].tag = "ok"
        /\ loaded[p].value # pre[p].map[IdOf(p)].value
        /\ result[p] = [tag |-> "ok", value |-> loaded[p].value]
        /\ map[IdOf(p)].expires_at = loaded[p].expires_at

\* the same call made as get_with_expiry, returning the value with its expiry
C12_WitnessEntry ==
    \E p \in Callers :
        /\ GetDone(p)
        /\ op[p] = "get_with_expiry"
        /\ StaleAtCall(p)
        /\ invoked[p] = 1
        /\ loaded[p].tag = "ok"
        /\ loaded[p].value # pre[p].map[IdOf(p)].value
        /\ result[p] = [tag |-> "ok", value |-> loaded[p].value,
                        expires_at |-> loaded[p].expires_at]
        /\ map[IdOf(p)].expires_at = loaded[p].expires_at

\* p's call began on an entry at its identifier that is still unexpired, and
\* no loader invocation but its own, if any, was ever made with its key: the
\* entry was loaded through another key with the same identifier
AliasOfLiveEntry(p) ==
    /\ LiveSinceCall(p)
    /\ loads[key[p]] = invoked[p]

\* C13 (calls made one at a time): keys with one identifier share one slot.
\* A get(K2) on the unexpired entry loaded through another key K1 with K2's
\* identifier returns that entry's value without invoking the loader and adds
\* no slot (size() is 1 when these are the only two calls); a delete(K2)
\* removes the entry loaded through K1; and a call that misses invokes the
\* loader with its own key (alone, when it is the first call).
C13_AliasesShareSlot ==
    \A p \in Callers :
        /\ (GetDone(p) /\ AliasOfLiveEntry(p))
             => /\ invoked[p] = 0
                /\ result[p].tag = "ok"
                /\ result[p].value = pre[p].map[IdOf(p)].value
                /\ map = pre[p].map
                /\ origin[IdOf(p)].key # key[p]
                /\ Normalize(origin[IdOf(p)].key) = Normalize(key[p])
                /\ calls = 2 => Cardinality(DOMAIN map) = 1
        /\ ( /\ pc[p] = "returned"
             /\ op[p] = "delete"
             /\ IdOf(p) \in DOMAIN pre[p].map
             /\ loads[key[p]] = 0 )
             => /\ IdOf(p) \notin DOMAIN map
                /\ Cardinality(DOMAIN map) + 1 = Cardinality(DOMAIN pre[p].map)
        /\ (GetDone(p) /\ invoked[p] = 1)
             => /\ loads[key[p]] >= 1
                /\ calls = 1 => \A k \in Keys \ {key[p]} : loads[k] = 0

\* get(K2) served the entry that get(K1) loaded, K1 # K2 sharing a slot
C13_Witness ==
    \E p \in Callers :
        /\ GetDone(p)
        /\ AliasOfLiveEntry(p)
        /\ invoked[p] = 0
        /\ loads[key[p]] = 0
        /\ origin[IdOf(p)].key # key[p]
        /\ loads[origin[IdOf(p)].key] = 1
        /\ result[p].value = map[IdOf(p)].value
        /\ calls = 2
        /\ Cardinality(DOMAIN map) = 1

\* delete(K2) removed the entry that get(K1) loaded
C13_WitnessDelete ==
    \E p \in Callers :
        /\ pc[p] = "returned"
        /\ op[p] = "delete"
        /\ IdOf(p) \in DOMAIN pre[p].map
        /\ loads[key[p]] = 0
        /\ calls = 2
        /\ map = EmptyMap

\* an expired entry loaded through K1 reloaded by get(K2), the loader having
\* run once with each key
C13_WitnessMiss ==
    \E p \in Callers :
        /\ GetDone(p)
        /\ StaleAtCall(p)
        /\ invoked[p] = 1
        /\ loads[key[p]] = 1
        /\ \E k \in Keys \ {key[p]} :
             Normalize(k) = IdOf(p) /\ loads[k] = 1
        /\ calls = 2

\* no caller but p holds the write guard
NoOtherWriter(p) == \A r \in Callers \ {p} : pc[r] # "write"

\* no caller but p holds a guard
NoOtherGuard(p) == \A r \in Callers \ {p} : pc[r] \notin {"read", "write"}

\* C14: a caller whose loader invocation is pending holds neither the read
\* nor the write guard, so that whatever step of its operation another
\* caller is at, that step can be taken while the load is pending: taking
\* the read lock unless a third caller writes, taking the write lock unless
\* a third caller holds a guard, and every critical section.
C14_NoLockAcrossLoader ==
    \A p \in Callers :
        pc[p] = "pending"
        => /\ p \notin readers
           /\ writer # p
           /\ \A q \in Callers \ {p} :
                /\ (pc[q] = "rlock" /\ NoOtherWriter(p))
                     => ENABLED AcquireRead(q)
                /\ (pc[q] = "wlock" /\ NoOtherGuard(p) /\ NoOtherGuard(q))
                     => ENABLED AcquireWrite(q)
                /\ pc[q] = "read"
                     => ENABLED (GetNonExpired(q) \/ Size(q))
                /\ pc[q] = "write"
                     => ENABLED (InsertItem(q) \/ Delete(q) \/ DeleteAll(q))

\* while p's load is pending, q has looked up, loaded, inserted under the
\* write guard and returned: its insert came after p's loader invocation
C14_Witness ==
    \E p, q \in Callers :
        /\ pc[p] = "pending"
        /\ GetDone(q)
        /\ key[q] = key[p]
        /\ invoked[q] = 1
        /\ loaded[q].tag = "ok"
        /\ loads[key[p]] = 2
        /\ IdOf(p) \in DOMAIN map
        /\ origin[IdOf(p)].count = 2

\* while p's load is pending, q holds the write guard for a delete_all
C14_WitnessDelete ==
    \E p, q \in Callers :
        /\ pc[p] = "pending"
        /\ pc[q] = "write"
        /\ op[q] = "delete_all"
        /\ writer = q

\* what the store holds at identifier i, or nothing
Slot(m, i) == IF i \in DOMAIN m THEN {m[i]} ELSE {}

\* C15: the insert of a successful load puts its entry at the identifier
\* whatever is there (nothing, a stale entry, or a live entry another load
\* put there meanwhile, with whatever expires_at), and between inserts a slot
\* changes by a delete or delete_all only: with no delete in between, the
\* store holds the entry of the load whose insert executed last.
C15_LastWriteWins ==
    [][ /\ \A p \in Callers :
             InsertStep(p)
             => Slot(map', IdOf(p)) =
                  {[value |-> loaded[p].value,
                    expires_at |-> loaded[p].expires_at]}
        /\ \A i \in Ids :
             Slot(map', i) # Slot(map, i)
             => \E p \in Callers :
                  \/ InsertStep(p) /\ IdOf(p) = i
                  \/ RemoveStep(p)
      ]_vars

\* two loads for one identifier in flight together, through two keys: the
\* caller that called first inserted last, over the live entry of the other,
\* and the store holds its entry although that one expires earlier
C15_Witness ==
    \E p, q \in Callers :
        /\ p < q
        /\ calls = 2
        /\ GetDone(p) /\ GetDone(q)
        /\ q \in overlap[p]
        /\ IdOf(p) = IdOf(q)
        /\ key[p] # key[q]
        /\ invoked[p] = 1 /\ invoked[q] = 1
        /\ loaded[p].tag = "ok" /\ loaded[q].tag = "ok"
        /\ loaded[p].value # loaded[q].value
        /\ loaded[p].expires_at < loaded[q].expires_at
        /\ now <= loaded[q].expires_at
        /\ origin[IdOf(p)].key = key[p]
        /\ map[IdOf(p)] = EntryOf(loaded[p])

\* the step is the cancellation of p's call
CancelStep(p) == pc[p] = "pending" /\ pc'[p] = "idle"

\* C16: no step of a get or get_with_expiry call up to the resolution of its
\* loader writes to the store, and the step that abandons the call while the
\* loader is pending changes neither the store nor the lock, which the call
\* does not hold, and leaves nothing of the call behind: the store changes
\* during such a call by the steps of other callers only.
C16_CancelLeavesNoTrace ==
    [][ \A p \in Callers :
          /\ ( /\ op[p] \in GetOps
               /\ pc[p] \in {"rlock", "read", "miss", "pending"}
               /\ pc'[p] # pc[p] )
               => map' = map
          /\ CancelStep(p)
               => /\ map' = map
                  /\ p \notin readers
                  /\ writer # p
                  /\ readers' = readers
                  /\ writer' = writer
                  /\ loaded'[p] = NoResult
      ]_vars

\* a get of key k was abandoned while its loader was pending (the loader was
\* invoked for k, no load for its identifier has resolved to an entry or
\* failed, and nobody is in a call); the store holds the entry of the other
\* call and nothing at k's identifier
C16_Witness ==
    \E k \in Keys :
        /\ \A p \in Callers : pc[p] = "idle"
        /\ calls = 2
        /\ loads[k] = 1
        /\ k \notin failed
        /\ produced[Normalize(k)] = {}
        /\ Normalize(k) \notin DOMAIN map
        /\ Cardinality(DOMAIN map) = 1

\* the step is the lookup of p's get or get_with_expiry
LookupStep(p) == pc[p] = "read" /\ op[p] \in GetOps /\ pc'[p] # "read"

\* C17: a lookup that finds an entry with now <= expires_at, the instant
\* now = expires_at included, returns a copy of it, invokes no loader and
\* leaves the whole store as it is, and any other lookup goes on to the
\* loader; a stored entry changes only by being replaced by the entry of a
\* successful load for its identifier, and goes only by delete (of its
\* identifier) or delete_all.
C17_HitIsReadOnly ==
    [][ /\ \A p \in Callers :
             LookupStep(p)
             => IF IdOf(p) \in DOMAIN map /\ now <= map[IdOf(p)].expires_at
                THEN /\ pc'[p] = "returned"
                     /\ result'[p].tag = "ok"
                     /\ result'[p].value = map[IdOf(p)].value
                     /\ op[p] = "get_with_expiry"
                          => result'[p].expires_at = map[IdOf(p)].expires_at
                     /\ invoked' = invoked
                     /\ loads' = loads
                     /\ map' = map
                ELSE /\ pc'[p] = "miss"
                     /\ map' = map
        /\ \A i \in DOMAIN map :
             /\ (i \in DOMAIN map' /\ map'[i] # map[i])
                  => \E p \in Callers :
                       /\ InsertStep(p)
                       /\ IdOf(p) = i
                       /\ map'[i].value = loaded[p].value
                       /\ map'[i].expires_at = loaded[p].expires_at
             /\ i \notin DOMAIN map'
                  => \E p \in Callers :
                       /\ RemoveStep(p)
                       /\ op[p] = "delete" => IdOf(p) = i
      ]_vars

\* two calls that began at the instant now = expires_at of the one entry ever
\* loaded were both served it, and its expires_at is what it was
C17_Witness ==
    \E p, q \in Callers :
        /\ p # q
        /\ GetDone(p) /\ GetDone(q)
        /\ IdOf(p) = IdOf(q)
        /\ op[q] = "get_with_expiry"
        /\ invoked[p] = 0 /\ invoked[q] = 0
        /\ IdOf(p) \in DOMAIN map
        /\ map = pre[p].map /\ map = pre[q].map
        /\ pre[p].now = now /\ pre[q].now = now
        /\ now = map[IdOf(p)].expires_at
        /\ now > 0
        /\ result[p].value = map[IdOf(p)].value
        /\ result[q].expires_at = map[IdOf(p)].expires_at
        /\ loads[origin[IdOf(p)].key] = 1

\* C18 (calls made one at a time): a get(K) whose load succeeded leaves at
\* K's identifier the entry the loader produced, value and expires_at as
\* produced, whether the slot was empty or held another entry, and leaves
\* every other identifier as it was before the call.
C18_LoadWritesOneSlot ==
    \A p \in Callers :
        (GetDone(p) /\ invoked[p] = 1 /\ loaded[p].tag = "ok")
        => /\ IdOf(p) \in DOMAIN map
           /\ map[IdOf(p)].value = loaded[p].value
           /\ map[IdOf(p)].expires_at = loaded[p].expires_at
           /\ \A j \in Ids \ {IdOf(p)} : Slot(map, j) = Slot(pre[p].map, j)
           /\ Cardinality(DOMAIN map) =
                Cardinality(DOMAIN pre[p].map \cup {IdOf(p)})

\* a reload that overwrote a stale entry with another value and expiry while
\* the entry at the other identifier stayed
C18_Witness ==
    \E p \in Callers :
        /\ GetDone(p)
        /\ invoked[p] = 1
        /\ loaded[p].tag = "ok"
        /\ Cardinality(DOMAIN pre[p].map) = 2
        /\ pre[p].map[IdOf(p)].value # loaded[p].value
        /\ pre[p].map[IdOf(p)].expires_at # loaded[p].expires_at
        /\ map[IdOf(p)] = EntryOf(loaded[p])
        /\ \E j \in Ids \ {IdOf(p)} : map[j] = pre[p].map[j]

\* q's delete of p's identifier, or its delete_all, began or was waiting for
\* the lock during p's current call and has returned
DeletedDuring(p, q) ==
    /\ q \in overlap[p]
    /\ pc[q] = "returned"
    /\ \/ op[q] = "delete_all"
       \/ op[q] = "delete" /\ IdOf(q) = IdOf(p)

\* C19: a delete of the identifier or a delete_all that ran and returned
\* while a get's load was in flight does not keep that load from the store:
\* its insert puts the entry at the identifier, the store is not empty after
\* it, and the call returns the loaded value.
C19_DeleteKeepsLoadsInFlight ==
    [][ \A p, q \in Callers :
          (InsertStep(p) /\ DeletedDuring(p, q))
          => /\ IdOf(p) \in DOMAIN map'
             /\ map'[IdOf(p)].value = loaded[p].value
             /\ map'[IdOf(p)].expires_at = loaded[p].expires_at
             /\ Cardinality(DOMAIN map') > 0
             /\ result'[p].tag = "ok"
             /\ result'[p].value = loaded[p].value
      ]_vars

\* delete(K) has returned, the only get(K), which began before it, inserted
\* after it, and the store holds the entry
C19_Witness ==
    \E p, q \in Callers :
        /\ p < q
        /\ calls = 2
        /\ GetDone(p)
        /\ invoked[p] = 1
        /\ loaded[p].tag = "ok"
        /\ DeletedDuring(p, q)
        /\ op[q] = "delete"
        /\ key[q] = key[p]
        /\ IdOf(p) \in DOMAIN map
        /\ map[IdOf(p)] = EntryOf(loaded[p])
        /\ Cardinality(DOMAIN map) > 0

\* the same after a delete_all
C19_WitnessDeleteAll ==
    \E p, q \in Callers :
        /\ p < q
        /\ calls = 2
        /\ GetDone(p)
        /\ invoked[p] = 1
        /\ loaded[p].tag = "ok"
        /\ DeletedDuring(p, q)
        /\ op[q] = "delete_all"
        /\ ~cleared
        /\ IdOf(p) \in DOMAIN map
        /\ map[IdOf(p)] = EntryOf(loaded[p])

\* the entry that outlived the delete(K) serves the next get(K) as a hit: of
\* the three calls one is the delete, one the only load ever invoked for the
\* identifier, one the hit
C19_WitnessHit ==
    \E p, q \in Callers :
        /\ calls = 3
        /\ pc[q] = "returned"
        /\ op[q] = "delete"
        /\ key[q] = key[p]
        /\ GetDone(p)
        /\ invoked[p] = 0
        /\ result[p].tag = "ok"
        /\ IdOf(p) \in DOMAIN map
        /\ result[p].value = map[IdOf(p)].value
        /\ loads[key[p]] = 1
        /\ \A k \in Keys \ {key[p]} : loads[k] = 0

\* the entry p's loader produced had expired before p's call began
LoadedExpired(p) ==
    /\ invoked[p] = 1
    /\ loaded[p].tag = "ok"
    /\ loaded[p].expires_at < pre[p].now

\* C20 (calls made one at a time): the expiry of what the loader returns is
\* not checked.  A load that produced an already expired entry is returned
\* as a success with its value, and the entry is stored and counted; a get
\* called on an expired entry invokes the loader again; and a call served
\* without a load was served an entry of the store that was unexpired.
C20_ExpiredLoadIsStored ==
    \A p \in Callers :
        GetDone(p)
        => /\ LoadedExpired(p)
                => /\ result[p].tag = "ok"
                   /\ result[p].value = loaded[p].value
                   /\ IdOf(p) \in DOMAIN map
                   /\ map[IdOf(p)].value = loaded[p].value
                   /\ map[IdOf(p)].expires_at = loaded[p].expires_at
                   /\ Cardinality(DOMAIN map) =
                        Cardinality(DOMAIN pre[p].map \cup {IdOf(p)})
           /\ ( /\ IdOf(p) \in DOMAIN pre[p].map
                /\ pre[p].map[IdOf(p)].expires_at < pre[p].now )
                => invoked[p] = 1
           /\ invoked[p] = 0
                => /\ IdOf(p) \in DOMAIN pre[p].map
                   /\ pre[p].now <= pre[p].map[IdOf(p)].expires_at
                   /\ result[p].value = pre[p].map[IdOf(p)].value

\* the second load for a key, called on the expired entry of the first and
\* itself producing an entry already expired: returned, stored and counted
C20_Witness ==
    \E p \in Callers :
        /\ GetDone(p)
        /\ StaleAtCall(p)
        /\ LoadedExpired(p)
        /\ loads[key[p]] = 2
        /\ origin[IdOf(p)].count = 2
        /\ result[p].tag = "ok"
        /\ result[p].value = loaded[p].value
        /\ map[IdOf(p)] = EntryOf(loaded[p])
        /\ now > map[IdOf(p)].expires_at
        /\ Cardinality(DOMAIN map) = 1

\* C21: in every reachable state the store holds entries at identifiers of
\* keys only, and each entry at identifier i is, value and expires_at, an
\* entry that a loader invocation for a key with identifier i resolved to,
\* put there through such a key with which the loader was invoked; an
\* identifier for which no load has succeeded holds nothing.
C21_Provenance ==
    /\ DOMAIN map \subseteq Ids
    /\ \A i \in DOMAIN map :
         /\ map[i] \in produced[i]
         /\ Normalize(origin[i].key) = i
         /\ origin[i].count >= 1
         /\ loads[origin[i].key] >= origin[i].count
    /\ \A i \in Ids : produced[i] = {} => i \notin DOMAIN map

\* the store holds one of the two entries loaded for an identifier through
\* one key, after the third load with that key has failed
C21_Witness ==
    \E i \in DOMAIN map, k \in failed :
        /\ Normalize(k) = i
        /\ Cardinality(produced[i]) = 2
        /\ map[i] \in produced[i]
        /\ loads[k] = 3

\* p waits for the lock
Waiting(p) == pc[p] \in {"rlock", "wlock"}

\* some caller can take the lock, or run and leave its critical section
LockMoves ==
    \E q \in Callers :
        ENABLED ( \/ AcquireRead(q) \/ AcquireWrite(q)
                  \/ GetNonExpired(q) \/ Size(q)
                  \/ InsertItem(q) \/ Delete(q) \/ DeleteAll(q) )

TypeOK ==
    /\ DOMAIN map \subseteq Ids
    /\ \A i \in DOMAIN map : map[i] \in Expiring
    /\ DOMAIN origin = DOMAIN map
    /\ readers = {p \in Callers : pc[p] = "read"}
    /\ writer \in Callers \cup {NoCaller}
    /\ \A p \in Callers : (writer = p) = (pc[p] = "write")
    /\ now \in Times
    /\ calls \in 0..MaxCalls
    /\ cleared => map = EmptyMap
====
